---- MODULE Spec2Model ----
(***************************************************************************)
(* zhealthcheck: the reconciliation loop of app.js (health state, planner, *)
(* application of the planned actions) and the rate-limited, retrying      *)
(* provider client of lib/cloudflare.js.                                   *)
(*                                                                         *)
(* Spec        one process running doCheckups cycles against a provider    *)
(*             record set; a provider call is abstracted to its outcome.   *)
(* ClientSpec  CloudflareAPI.makeRequest in detail: rate-limit wait,       *)
(*             attempts, error classification, backoff.                    *)
(* Times are milliseconds, as Date.now() and setTimeout use them.          *)
(***************************************************************************)
EXTENDS Integers, Sequences, FiniteSets, TLC

\* ---------------------------------------------------------------- bounds
\* Number of configured servers.
NumServers == 2
\* Granularity of the passage of time in the cycle model (ms).
TickMs == 15000
\* The clock stops advancing after this many ticks.
MaxTicks == 2
\* Number of provider calls made in the client model.
MaxCalls == 2

\* ------------------------------------------------------- program constants
GRACE_PERIOD_MS == 30000
\* Date.now() when the process starts: an epoch time, far above any delay.
StartClock == 100000
\* null, as stored in lastHealthyTime / lastUnhealthyTime.
Null == -1
\* An address that is no configured server's (published out of band).
ForeignIP == 99

VARIABLES
    intervalSeconds,  \* config.health.intervalSeconds (Null: not configured)
    listing,          \* config.servers: the servers in the order the
                      \* configuration lists them
    stable,           \* the environment has settled: from now on every probe
                      \* answers as in the latest cycle, every provider call
                      \* succeeds and nobody else touches the record set
    serverHealth,     \* serverHealth[ip]: the HealthRecord of each server
    records,          \* the provider's A records of the name: {[id, content]}
    clock,            \* Date.now()
    pc,               \* position of doCheckups
    results,          \* probe results of this cycle, by ip (NoResult: pending)
    currentRecords,   \* manageDNSRecords: the ground truth fetched this cycle
    actions,          \* manageDNSRecords: sortedActions
    next,             \* index of the next action to execute
    fetched,          \* "none" | "ok" | "failed" | "threw": this cycle's
                      \* ground-truth fetch
    issued,           \* create/delete calls of this cycle: <<[type, ip, ok]>>
    planTime,         \* Date.now() when this cycle's actions were planned
    unhealthySince,   \* by ip: time of the last healthy->unhealthy probe edge
    sinceLast,        \* none: no cycle has ended yet; changed: the record set was
                      \* changed from outside since the last cycle ended; else how
                      \* that cycle went: clean (ground truth fetched and every
                      \* call succeeded) or failed
    lastResults,      \* the probe results of the latest state update
    sameProbes,       \* this cycle's probe results equal the previous cycle's
    armed,            \* calls of doCheckups that are due: the call that ends the
                      \* script, then the timers set by setTimeout
    active,           \* invocations of doCheckups that have not reached their end
    \* ---- CloudflareAPI (ClientSpec)
    lastRequest,      \* this.lastRequest
    attempt,          \* makeRequest: the loop variable
    cpos,             \* position of makeRequest: idle, top, rateWait, request, backoff
    wakeAt,           \* when the pending setTimeout fires
    operation,        \* which provider call is being made: list, create, delete
    argument,         \* createRecord's ip / deleteRecord's recordId, as characters
    outcome,          \* how the latest call ended: none, ok, error (thrown by
                      \* makeRequest), invalid (thrown by the argument check)
    calls,            \* provider calls made so far
    inFlight,         \* requests sent and not yet answered
    starts,           \* start times of the two latest requests: <<previous, latest>>
    sent,             \* requests sent by this call so far
    failed,           \* attempts of this call that have failed so far
    firstKind,        \* this call's first failure: none, retryable, other
    allRetryable,     \* every failure of this call so far was of a retryable kind
    all429,           \* every failure of this call so far had HTTP status 429
    failedAt,         \* when this call's latest attempt failed
    waits             \* this call: time from each failure to the next attempt's start


cycleVars == <<intervalSeconds, listing, stable, serverHealth, records, clock, pc,
               results, currentRecords, actions, next, fetched, issued,
               planTime, unhealthySince, sinceLast, lastResults, sameProbes,
                   armed, active>>

clientVars == <<lastRequest, attempt, cpos, wakeAt, operation, argument, outcome, calls,
                inFlight, starts, sent, failed, firstKind, allRetryable, all429,
                failedAt, waits>>

vars == <<cycleVars, clientVars>>

\* ------------------------------------------------------------ configuration
\* Server names are numbers standing for the names in collation order;
\* addresses are numbers standing for distinct IPv4 literals.
ServerOf(i) == [name |-> i, ip |-> 10 + (NumServers + 1 - i)]

ServerIPs == {ServerOf(i).ip : i \in 1..NumServers}

AllIPs == ServerIPs \cup {ForeignIP}

\* config.servers: the configured list, here listed in descending name order
\* so that the planner's sort by name has work to do.
servers == [i \in 1..NumServers |-> ServerOf(NumServers + 1 - i)]

\* ------------------------------------------------------------- health probe
NoResult == [pending |-> TRUE]

\* What the health endpoint can answer: status 0 stands for no response
\* (timeout, transport error); body is the isMongoPrimary field.
Responses == [status : {0, 200, 202, 503}, isMongoPrimary : BOOLEAN]

\* axios resolves 2xx statuses and rejects everything else.
checkHealth(res) ==
    IF res.status >= 200 /\ res.status < 300
    THEN [isHealthy |-> res.status = 200, isPrimary |-> res.isMongoPrimary = TRUE]
    ELSE [isHealthy |-> FALSE, isPrimary |-> FALSE]

\* ------------------------------------------------------------- health state
InitialHealth ==
    [isHealthy |-> FALSE, isPrimary |-> FALSE, lastHealthyTime |-> Null,
     lastUnhealthyTime |-> Null, isAssigned |-> FALSE]

\* Fault variant: level-triggered, the timestamp of the reported state is
\* written at every update.
updateServerHealth_LevelTriggered(health, healthResult, now) ==
    LET h1 == [health EXCEPT !.isPrimary = healthResult.isPrimary] IN
    IF healthResult.isHealthy
    THEN [h1 EXCEPT !.lastHealthyTime = now, !.isHealthy = TRUE]
    ELSE [h1 EXCEPT !.lastUnhealthyTime = now, !.isHealthy = FALSE]

\* Fault variant: the primary flag is taken over only when the health changes.
updateServerHealth_PrimaryOnEdge(health, healthResult, now) ==
    IF healthResult.isHealthy /\ ~health.isHealthy
    THEN [health EXCEPT !.isPrimary = healthResult.isPrimary,
                        !.lastHealthyTime = now, !.isHealthy = TRUE]
    ELSE IF ~healthResult.isHealthy /\ health.isHealthy
    THEN [health EXCEPT !.isPrimary = healthResult.isPrimary,
                        !.lastUnhealthyTime = now, !.isHealthy = FALSE]
    ELSE health

updateServerHealth(health, healthResult, now) ==
    LET h1 == [health EXCEPT !.isPrimary = healthResult.isPrimary] IN
    IF healthResult.isHealthy /\ ~h1.isHealthy
    THEN [h1 EXCEPT !.lastHealthyTime = now, !.isHealthy = TRUE]
    ELSE IF ~healthResult.isHealthy /\ h1.isHealthy
    THEN [h1 EXCEPT !.lastUnhealthyTime = now, !.isHealthy = FALSE]
    ELSE h1

\* Number(null) is 0 in an arithmetic expression.
ToNumber(t) == IF t = Null THEN 0 ELSE t

healthyNonPrimaryCount(sh) ==
    Cardinality({ip \in DOMAIN sh : sh[ip].isHealthy /\ ~sh[ip].isPrimary})

\* Fault variant: a primary-flagged server is never assigned, fallback or not.
shouldAssignIP_NoFallback(sh, server) ==
    LET health == sh[server.ip] IN
    health.isHealthy /\ ~health.isAssigned /\ ~health.isPrimary

\* Fault variant: the primary flag is not looked at.
shouldAssignIP_AnyRole(sh, server) ==
    LET health == sh[server.ip] IN
    health.isHealthy /\ ~health.isAssigned

\* Fault variant: a healthy server is assigned whether or not it already is.
shouldAssignIP_Again(sh, server) ==
    LET health == sh[server.ip] IN
    IF ~health.isHealthy THEN FALSE
    ELSE IF health.isPrimary THEN ~(healthyNonPrimaryCount(sh) > 0)
    ELSE TRUE

\* Fault variant: failover instead of load balancing, a server is assigned
\* only while no healthy server is.
shouldAssignIP_Failover(sh, server) ==
    LET health == sh[server.ip] IN
    IF ~health.isHealthy \/ health.isAssigned THEN FALSE
    ELSE IF \E ip \in DOMAIN sh : sh[ip].isHealthy /\ sh[ip].isAssigned THEN FALSE
    ELSE IF health.isPrimary THEN ~(healthyNonPrimaryCount(sh) > 0)
    ELSE TRUE

\* Fault variant: a primary-flagged server is the fallback only when it is
\* the one healthy server.
shouldAssignIP_SoleHealthy(sh, server) ==
    LET health == sh[server.ip] IN
    IF ~health.isHealthy \/ health.isAssigned THEN FALSE
    ELSE IF health.isPrimary
    THEN Cardinality({ip \in DOMAIN sh : sh[ip].isHealthy}) = 1
    ELSE TRUE

\* Fault variant: every healthy server gets an assign, published or not,
\* primary-flagged or not.
shouldAssignIP_AllHealthy(sh, server) == sh[server.ip].isHealthy

shouldAssignIP(sh, server) ==
    LET health == sh[server.ip] IN
    IF ~health.isHealthy \/ health.isAssigned THEN FALSE
    ELSE IF health.isPrimary THEN ~(healthyNonPrimaryCount(sh) > 0)
    ELSE TRUE

\* Fault variant: the grace period test is <= instead of <.
shouldUnassignIP_LateGrace(sh, server, assignedCount, now) ==
    LET health == sh[server.ip] IN
    IF ~health.isAssigned \/ health.isHealthy THEN FALSE
    ELSE IF assignedCount <= 1 THEN FALSE
    ELSE IF now - ToNumber(health.lastUnhealthyTime) <= GRACE_PERIOD_MS THEN FALSE
    ELSE TRUE

\* Fault variant: the health of the server is not looked at.
shouldUnassignIP_IgnoresHealth(sh, server, assignedCount, now) ==
    LET health == sh[server.ip] IN
    IF ~health.isAssigned THEN FALSE
    ELSE IF assignedCount <= 1 THEN FALSE
    ELSE IF now - ToNumber(health.lastUnhealthyTime) < GRACE_PERIOD_MS THEN FALSE
    ELSE TRUE

shouldUnassignIP(sh, server, assignedCount, now) ==
    LET health == sh[server.ip] IN
    IF ~health.isAssigned \/ health.isHealthy THEN FALSE
    ELSE IF health.isPrimary /\ health.isHealthy
    THEN healthyNonPrimaryCount(sh) > 0
    ELSE IF assignedCount <= 1 THEN FALSE
    ELSE IF now - ToNumber(health.lastUnhealthyTime) < GRACE_PERIOD_MS THEN FALSE
    ELSE TRUE

\* ------------------------------------------------------------------ planner
NoRecordId == 0

\* Fault variant: the lookup takes whatever record comes first.
findRecord_Any(recs, ip) ==
    IF recs # {}
    THEN (CHOOSE r \in recs : \A q \in recs : r.content >= q.content).id
    ELSE NoRecordId

\* currentRecords.find(r => r.content === ip); the provider holds no two
\* identical records, so at most one record matches.
findRecord(recs, ip) ==
    IF \E r \in recs : r.content = ip
    THEN (CHOOSE r \in recs : r.content = ip).id
    ELSE NoRecordId

\* new Set(currentRecords.map(r => r.content))
currentIPsOf(recs) == {r.content : r \in recs}

RECURSIVE InsertByName(_, _)
InsertByName(s, sorted) ==
    IF sorted = <<>> THEN <<s>>
    ELSE IF s.name < Head(sorted).name THEN <<s>> \o sorted
    ELSE <<Head(sorted)>> \o InsertByName(s, Tail(sorted))

\* Fault variant: the servers are evaluated in the order of the configuration.
sortedServersOf_AsListed(list) == list

RECURSIVE sortedServersOf(_)
\* [...servers].sort((a, b) => a.name.localeCompare(b.name))
sortedServersOf(list) ==
    IF list = <<>> THEN <<>>
    ELSE InsertByName(list[Len(list)], sortedServersOf(SubSeq(list, 1, Len(list) - 1)))

hasUnassignFor(acts, ip) ==
    \E i \in 1..Len(acts) : acts[i].type = "unassign" /\ acts[i].server.ip = ip

\* Fault variant: the demotion of a primary-flagged server respects the
\* assigned-count floor.
planServer_DemotionFloor(sh, recs, assignedCount, now, acts, server) ==
    LET health == sh[server.ip]
        rid == findRecord(recs, server.ip)
        a1 == IF shouldAssignIP(sh, server)
              THEN Append(acts, [type |-> "assign", server |-> server,
                                 recordId |-> NoRecordId])
              ELSE IF shouldUnassignIP(sh, server, assignedCount, now)
                      /\ rid # NoRecordId
              THEN Append(acts, [type |-> "unassign", server |-> server,
                                 recordId |-> rid])
              ELSE acts
    IN  IF health.isAssigned /\ health.isPrimary /\ health.isHealthy
           /\ healthyNonPrimaryCount(sh) > 0 /\ assignedCount > 1
           /\ rid # NoRecordId /\ ~hasUnassignFor(a1, server.ip)
        THEN Append(a1, [type |-> "unassign", server |-> server, recordId |-> rid])
        ELSE a1

\* One iteration of the planning loop: the actions after evaluating `server`.
planServer(sh, recs, assignedCount, now, acts, server) ==
    LET health == sh[server.ip]
        rid == findRecord(recs, server.ip)
        a1 == IF shouldAssignIP(sh, server)
              THEN Append(acts, [type |-> "assign", server |-> server,
                                 recordId |-> NoRecordId])
              ELSE IF shouldUnassignIP(sh, server, assignedCount, now)
                      /\ rid # NoRecordId
              THEN Append(acts, [type |-> "unassign", server |-> server,
                                 recordId |-> rid])
              ELSE acts
    IN  IF health.isAssigned /\ health.isPrimary /\ health.isHealthy
           /\ healthyNonPrimaryCount(sh) > 0
           /\ rid # NoRecordId /\ ~hasUnassignFor(a1, server.ip)
        THEN Append(a1, [type |-> "unassign", server |-> server, recordId |-> rid])
        ELSE a1

RECURSIVE planLoop(_, _, _, _, _, _)
planLoop(sh, recs, assignedCount, now, sorted, acts) ==
    IF sorted = <<>> THEN acts
    ELSE planLoop(sh, recs, assignedCount, now, Tail(sorted),
                  planServer(sh, recs, assignedCount, now, acts, Head(sorted)))

IsAssign(a) == a.type = "assign"
IsUnassign(a) == a.type = "unassign"

\* Fault variant: the actions are executed in planning order.
sortActions_Unsorted(acts) == acts

\* actions.sort(assign before unassign): the sort is stable, so each kind
\* keeps its planning order.
sortActions(acts) == SelectSeq(acts, IsAssign) \o SelectSeq(acts, IsUnassign)

\* Fault variant: isAssigned is a cache that the ground truth can only set.
resync_Sticky(sh, recs) ==
    [ip \in DOMAIN sh |->
        [sh[ip] EXCEPT !.isAssigned = sh[ip].isAssigned \/ ip \in currentIPsOf(recs)]]

\* serverHealth[server.ip].isAssigned = currentIPs.has(server.ip)
resync(sh, recs) ==
    [ip \in DOMAIN sh |-> [sh[ip] EXCEPT !.isAssigned = ip \in currentIPsOf(recs)]]

planActions(sh, list, recs, now) ==
    sortActions(planLoop(sh, recs, Cardinality(currentIPsOf(recs)), now,
                         sortedServersOf(list), <<>>))

\* ----------------------------------------------------------------- provider
\* The provider's record of an address. The provider holds no two identical
\* records, and an identifier is opaque and read afresh every cycle, so the
\* identifier of the record of an address is modelled as one fixed number.
recordOf(ip) == [id |-> 100 + ip, content |-> ip]

\* A record set publishing exactly the addresses of `ips`.
recordsOf(ips) == {recordOf(ip) : ip \in ips}

\* POST dns_records succeeds.
providerCreate(recs, ip) == recs \cup {recordOf(ip)}

\* DELETE dns_records/<id> succeeds.
providerDelete(recs, id) == {r \in recs : r.id # id}

MaxClock == StartClock + MaxTicks * TickMs

\* ------------------------------------------------------------------- cycles
CycleInit ==
    /\ intervalSeconds \in {Null, 10}
    /\ serverHealth = [ip \in ServerIPs |-> InitialHealth]
    /\ records \in {recordsOf(ips) : ips \in SUBSET AllIPs}
    /\ clock = StartClock
    /\ pc = "idle"
    /\ results = [ip \in ServerIPs |-> NoResult]
    /\ currentRecords = {}
    /\ actions = <<>>
    /\ next = 1
    /\ fetched = "none"
    /\ issued = <<>>
    /\ planTime = Null
    /\ unhealthySince = [ip \in ServerIPs |-> Null]
    /\ sinceLast = "none"
    /\ lastResults = [ip \in ServerIPs |-> NoResult]
    /\ sameProbes = FALSE
    /\ stable = FALSE
    /\ armed = 1
    /\ active = 0

\* Time passes while the process waits. Date.now() is read when the probes
\* have resolved and when the ground-truth fetch has resolved, so the time
\* that passes before either is all that a cycle can observe.
Tick ==
    /\ pc \in {"idle", "fetch"}
    /\ clock + TickMs <= MaxClock
    /\ clock' = clock + TickMs
    /\ UNCHANGED <<clientVars, intervalSeconds, listing, stable, serverHealth, records, pc, results,
                   currentRecords, actions, next, fetched, issued, planTime,
                   unhealthySince, sinceLast, lastResults, sameProbes,
                   armed, active>>

\* Somebody else adds or deletes a record of the name between two cycles.
OutOfBand ==
    /\ pc = "idle"
    /\ \E ip \in AllIPs :
         records' = IF ip \in currentIPsOf(records)
                    THEN providerDelete(records, recordOf(ip).id)
                    ELSE providerCreate(records, ip)
    /\ sinceLast' = IF sinceLast = "none" THEN "none" ELSE "changed"
    /\ UNCHANGED <<clientVars, intervalSeconds, listing, stable, serverHealth, clock, pc, results,
                   currentRecords, actions, next, fetched, issued, planTime,
                   unhealthySince, lastResults, sameProbes,
                   armed, active>>

\* Fault variant: the loop is driven by setInterval, whose timer stays armed.
StartCycle_Interval ==
    /\ armed > 0
    /\ armed' = armed
    /\ active' = active + 1
    /\ pc' = "probing"
    /\ UNCHANGED <<clientVars, intervalSeconds, listing, stable, serverHealth, records, clock,
                   results, currentRecords, actions, next, fetched, issued,
                   planTime, unhealthySince, sinceLast, lastResults, sameProbes>>

\* doCheckups is entered (the call that ends the script, or the timer fires)
\* and fans the probes out.
StartCycle ==
    /\ armed > 0
    /\ armed' = armed - 1
    /\ active' = active + 1
    /\ pc' = "probing"
    /\ UNCHANGED <<clientVars, intervalSeconds, listing, stable, serverHealth, records, clock,
                   results, currentRecords, actions, next, fetched, issued,
                   planTime, unhealthySince, sinceLast, lastResults, sameProbes>>

Pending(res) == {ip \in ServerIPs : res[ip] = NoResult}

\* Fault variant: the health record of a server is updated as soon as its own
\* probe completes.
ProbeDone_UpdatesAtOnce ==
    /\ pc = "probing"
    /\ \E ip \in Pending(results), res \in Responses :
         /\ Pending(results) # {ip}
         /\ results' = [results EXCEPT ![ip] = checkHealth(res)]
         /\ serverHealth' = [serverHealth EXCEPT
               ![ip] = updateServerHealth(serverHealth[ip], checkHealth(res), clock)]
    /\ UNCHANGED <<clientVars, intervalSeconds, listing, stable, records, clock, pc,
                   currentRecords, actions, next, fetched, issued, planTime,
                   unhealthySince, sinceLast, lastResults, sameProbes,
                   armed, active>>

\* One probe completes, in any order, while others are still pending.
ProbeDone ==
    /\ pc = "probing"
    /\ \E ip \in Pending(results), res \in Responses :
         /\ Pending(results) # {ip}
         /\ results' = [results EXCEPT ![ip] = checkHealth(res)]
    /\ UNCHANGED <<clientVars, intervalSeconds, listing, stable, serverHealth, records, clock, pc,
                   currentRecords, actions, next, fetched, issued, planTime,
                   unhealthySince, sinceLast, lastResults, sameProbes,
                   armed, active>>

\* The last pending probe completes: Promise.all resolves and the loop over
\* the results updates every health record, with no pause in between.
UpdateHealth ==
    /\ pc = "probing"
    /\ \E ip \in Pending(results), res \in Responses :
         /\ Pending(results) = {ip}
         /\ results' = [results EXCEPT ![ip] = checkHealth(res)]
    /\ serverHealth' = [ip \in ServerIPs |->
                          updateServerHealth(serverHealth[ip], results'[ip], clock)]
    /\ unhealthySince' = [ip \in ServerIPs |->
          IF results'[ip].isHealthy THEN Null
          ELSE IF lastResults[ip] # NoResult /\ lastResults[ip].isHealthy THEN clock
          ELSE unhealthySince[ip]]
    /\ sameProbes' = (results' = lastResults)
    /\ lastResults' = results'
    /\ pc' = "fetch"
    /\ UNCHANGED <<clientVars, intervalSeconds, listing, stable, records, clock, currentRecords, actions,
                   next, fetched, issued, planTime, sinceLast, armed, active>>

\* getAllDNSRecords() resolves: resync, plan and sort run without a pause.
FetchOk ==
    /\ pc = "fetch"
    /\ currentRecords' = records
    /\ serverHealth' = resync(serverHealth, records)
    /\ actions' = planActions(resync(serverHealth, records), listing, records, clock)
    /\ planTime' = clock
    /\ fetched' = "ok"
    /\ pc' = IF actions' = <<>> THEN "summary" ELSE "apply"
    /\ UNCHANGED <<clientVars, intervalSeconds, listing, stable, records, clock, results, next,
                   issued, unhealthySince, sinceLast, lastResults, sameProbes,
                   armed, active>>

\* Fault variant: the failure is swallowed and the planner runs on an empty
\* ground truth.
FetchFail_PlansAnyway ==
    /\ pc = "fetch"
    /\ fetched' = "failed"
    /\ actions' = planActions(resync(serverHealth, {}), listing, {}, clock)
    /\ pc' = IF actions' = <<>> THEN "summary" ELSE "apply"
    /\ UNCHANGED <<clientVars, intervalSeconds, listing, stable, serverHealth, records, clock,
                   results, currentRecords, next, issued, planTime,
                   unhealthySince, sinceLast, lastResults, sameProbes,
                   armed, active>>

\* getAllDNSRecords() rejects: the cycle's reconciliation is skipped.
FetchFail ==
    /\ pc = "fetch"
    /\ fetched' = "failed"
    /\ pc' = "summary"
    /\ UNCHANGED <<clientVars, intervalSeconds, listing, stable, serverHealth, records, clock,
                   results, currentRecords, actions, next, issued, planTime,
                   unhealthySince, sinceLast, lastResults, sameProbes,
                   armed, active>>

\* getAllDNSRecords() resolves with something that is no array (the answer
\* has no `result` list): currentRecords.map throws, the exception leaves
\* manageDNSRecords and is caught by doCheckups, which skips the summary and
\* runs its finally block.
FetchThrows ==
    /\ pc = "fetch"
    /\ fetched' = "threw"
    /\ pc' = "summary"
    /\ UNCHANGED <<clientVars, intervalSeconds, listing, stable, serverHealth, records, clock,
                   results, currentRecords, actions, next, issued, planTime,
                   unhealthySince, sinceLast, lastResults, sameProbes,
                   armed, active>>

\* createDNSRecord / deleteDNSRecord of the next action resolves; after the
\* last action manageDNSRecords returns.
ApplyOk ==
    /\ pc = "apply"
    /\ next <= Len(actions)
    /\ LET a == actions[next] IN
         /\ records' = IF a.type = "assign"
                       THEN providerCreate(records, a.server.ip)
                       ELSE providerDelete(records, a.recordId)
         /\ serverHealth' = [serverHealth EXCEPT
                               ![a.server.ip].isAssigned = (a.type = "assign")]
         /\ issued' = Append(issued, [type |-> a.type, ip |-> a.server.ip,
                                      ok |-> TRUE])
    /\ next' = next + 1
    /\ pc' = IF next' > Len(actions) THEN "summary" ELSE "apply"
    /\ UNCHANGED <<clientVars, intervalSeconds, listing, stable, clock, results, currentRecords, actions,
                   fetched, planTime, unhealthySince, sinceLast, lastResults, sameProbes,
                   armed, active>>

\* Fault variant: the first failure ends the execute loop.
ApplyFail_Aborts ==
    /\ pc = "apply"
    /\ next <= Len(actions)
    /\ issued' = Append(issued, [type |-> actions[next].type,
                                 ip |-> actions[next].server.ip, ok |-> FALSE])
    /\ next' = Len(actions) + 1
    /\ pc' = "summary"
    /\ UNCHANGED <<clientVars, intervalSeconds, listing, stable, serverHealth, records, clock, results,
                   currentRecords, actions, fetched, planTime, unhealthySince,
                   sinceLast, lastResults, sameProbes,
                   armed, active>>

\* The call of the next action throws: caught, logged, the loop goes on.
ApplyFail ==
    /\ pc = "apply"
    /\ next <= Len(actions)
    /\ issued' = Append(issued, [type |-> actions[next].type,
                                 ip |-> actions[next].server.ip, ok |-> FALSE])
    /\ next' = next + 1
    /\ pc' = IF next' > Len(actions) THEN "summary" ELSE "apply"
    /\ UNCHANGED <<clientVars, intervalSeconds, listing, stable, serverHealth, records, clock, results,
                   currentRecords, actions, fetched, planTime, unhealthySince,
                   sinceLast, lastResults, sameProbes,
                   armed, active>>

AllOk(done) == \A i \in 1..Len(done) : done[i].ok

\* Fault variant: the timer is set at the end of the try block, so a cycle
\* whose body threw sets none.
EndCycle_RearmInTry ==
    /\ pc = "summary"
    /\ pc' = IF intervalSeconds # Null /\ fetched # "threw" THEN "idle" ELSE "exit"
    /\ armed' = IF intervalSeconds # Null /\ fetched # "threw" THEN armed + 1 ELSE armed
    /\ active' = active - 1
    /\ sinceLast' = IF fetched = "ok" /\ AllOk(issued) THEN "clean" ELSE "failed"
    /\ sameProbes' = FALSE
    /\ results' = [ip \in ServerIPs |-> NoResult]
    /\ currentRecords' = {}
    /\ actions' = <<>>
    /\ next' = 1
    /\ fetched' = "none"
    /\ issued' = <<>>
    /\ planTime' = Null
    /\ UNCHANGED <<clientVars, intervalSeconds, listing, stable, serverHealth, records, clock,
                   unhealthySince, lastResults>>

\* The status summary, then the finally block: the next cycle is armed when
\* an interval is configured.
EndCycle ==
    /\ pc = "summary"
    /\ pc' = IF intervalSeconds # Null THEN "idle" ELSE "exit"
    /\ armed' = IF intervalSeconds # Null THEN armed + 1 ELSE armed
    /\ active' = active - 1
    /\ sinceLast' = IF fetched = "ok" /\ AllOk(issued) THEN "clean" ELSE "failed"
    /\ sameProbes' = FALSE
    /\ results' = [ip \in ServerIPs |-> NoResult]
    /\ currentRecords' = {}
    /\ actions' = <<>>
    /\ next' = 1
    /\ fetched' = "none"
    /\ issued' = <<>>
    /\ planTime' = Null
    /\ UNCHANGED <<clientVars, intervalSeconds, listing, stable, serverHealth, records, clock,
                   unhealthySince, lastResults>>

\* ---------------------------------------------------------- provider client
minInterval == 1000

retryDelays == <<1000, 2000, 4000, 8000>>

maxRetries == Len(retryDelays)

\* What a rejected request carries: the HTTP status of error.response (0: no
\* response), the code of the first error of the provider's body (0: none)
\* and error.code.
Failures ==
    { [status |-> 429, cfCode |-> 0,     code |-> "ERR_BAD_REQUEST"],
      [status |-> 403, cfCode |-> 10013, code |-> "ERR_BAD_REQUEST"],
      [status |-> 0,   cfCode |-> 0,     code |-> "ECONNRESET"],
      [status |-> 0,   cfCode |-> 0,     code |-> "ETIMEDOUT"],
      [status |-> 503, cfCode |-> 0,     code |-> "ERR_BAD_RESPONSE"],
      [status |-> 404, cfCode |-> 0,     code |-> "ERR_BAD_REQUEST"],
      [status |-> 0,   cfCode |-> 0,     code |-> "ECONNABORTED"] }

\* The failures the retry policy names: HTTP 429, the provider's rate-limit
\* error code, connection reset, connection timeout, any 5xx.
RetryableKind(error) ==
    \/ error.status = 429
    \/ error.cfCode = 10013
    \/ error.code \in {"ECONNRESET", "ETIMEDOUT"}
    \/ error.status \in 500..599

isRateLimit(error) == error.status = 429 \/ error.cfCode = 10013

\* Fault variant: every 4xx answer is retried.
isRetryable_Any4xx(error) ==
    \/ isRateLimit(error)
    \/ error.code = "ECONNRESET"
    \/ error.code = "ETIMEDOUT"
    \/ (error.status >= 400 /\ error.status < 600)

isRetryable(error) ==
    \/ isRateLimit(error)
    \/ error.code = "ECONNRESET"
    \/ error.code = "ETIMEDOUT"
    \/ (error.status >= 500 /\ error.status < 600)

\* Fault variant: the loop gives up one attempt early.
isLastAttempt_Early(n) == n >= maxRetries - 1

isLastAttempt(n) == n = maxRetries

\* Fault variant: every request is preceded by a full minInterval sleep.
rateLimitWait_Always(now, last) == minInterval

\* Fault variant: no rate-limit sleep at all.
rateLimitWait_None(now, last) == 0

\* The rate-limit wait before a request: how long makeRequest sleeps.
rateLimitWait(now, last) ==
    IF now - last < minInterval THEN minInterval - (now - last) ELSE 0

\* How long a request can take, and how long the caller can stay away from
\* the client between two calls (ms).
Durations == {0, 400}
Gaps == {0, 300, 1500}

\* ------------------------------------------------------ argument validation
\* A string is the sequence of its characters.
Digits == {"0", "1", "2", "3", "4", "5", "6", "7", "8", "9"}

DigitValue(c) ==
    CASE c = "0" -> 0 [] c = "1" -> 1 [] c = "2" -> 2 [] c = "3" -> 3 [] c = "4" -> 4
      [] c = "5" -> 5 [] c = "6" -> 6 [] c = "7" -> 7 [] c = "8" -> 8 [] c = "9" -> 9

RECURSIVE split(_, _)
\* str.split(sep): the pieces between the separators, empty pieces included.
split(str, sep) ==
    IF \E i \in 1..Len(str) : str[i] = sep
    THEN LET i == CHOOSE k \in 1..Len(str) :
                      str[k] = sep /\ \A j \in 1..(k - 1) : str[j] # sep
         IN  <<SubSeq(str, 1, i - 1)>> \o split(SubSeq(str, i + 1, Len(str)), sep)
    ELSE <<str>>

\* /^(0|[1-9]\d*)$/.test(part)
octetPattern(part) ==
    \/ part = <<"0">>
    \/ /\ Len(part) >= 1
       /\ part[1] \in Digits \ {"0"}
       /\ \A i \in 2..Len(part) : part[i] \in Digits

RECURSIVE parseInt(_)
\* parseInt(part, 10) of a string of decimal digits.
parseInt(part) ==
    IF part = <<>> THEN 0
    ELSE 10 * parseInt(SubSeq(part, 1, Len(part) - 1)) + DigitValue(part[Len(part)])

\* Fault variant: the pattern lets leading zeros through.
isValidIP_LeadingZeros(ip) ==
    LET parts == split(ip, ".") IN
    IF Len(parts) # 4 THEN FALSE
    ELSE \A k \in 1..Len(parts) :
           IF ~(parts[k] # <<>> /\ \A i \in 1..Len(parts[k]) : parts[k][i] \in Digits)
           THEN FALSE
           ELSE parseInt(parts[k]) >= 0 /\ parseInt(parts[k]) <= 255

isValidIP(ip) ==
    LET parts == split(ip, ".") IN
    IF Len(parts) # 4 THEN FALSE
    ELSE \A k \in 1..Len(parts) :
           IF ~octetPattern(parts[k]) THEN FALSE
           ELSE parseInt(parts[k]) >= 0 /\ parseInt(parts[k]) <= 255

\* /^[a-f0-9]{32}$/.test(recordId)
isValidRecordId(recordId) ==
    /\ Len(recordId) = 32
    /\ \A i \in 1..Len(recordId) :
         recordId[i] \in Digits \cup {"a", "b", "c", "d", "e", "f"}

Repeat(c, n) == [i \in 1..n |-> c]

\* The addresses createRecord is called with.
AddressArguments ==
    { <<"1", ".", "2", ".", "3", ".", "4">>,
      <<"1", "0", ".", "0", ".", "0", ".", "2", "5", "5">>,
      <<"1", ".", "2", ".", "3">>,
      <<"1", ".", "2", ".", "3", ".", "4", ".", "5">>,
      <<"1", ".", "2", ".", "3", ".", "2", "5", "6">>,
      <<"0", "1", ".", "2", ".", "3", ".", "4">>,
      <<"1", ".", "2", ".", ".", "4">>,
      <<"1", ".", "2", ".", "3", ".", "a">>,
      <<"1", ".", "2", ".", "3", ".", "4", " ">>,
      <<>> }

\* The record identifiers deleteRecord is called with.
RecordIdArguments ==
    { Repeat("a", 16) \o Repeat("0", 15) \o <<"9">>,
      Repeat("a", 31),
      Repeat("a", 33),
      Repeat("a", 31) \o <<"A">>,
      Repeat("a", 31) \o <<"g">>,
      <<"1", "1", "1">>,
      <<>> }

\* getAllRecords takes no argument.
NoArgument == <<"-">>

ArgumentsOf(op) ==
    CASE op = "create" -> AddressArguments
      [] op = "delete" -> RecordIdArguments
      [] op = "list"   -> {NoArgument}

\* The check createRecord / deleteRecord makes before calling makeRequest.
argumentPasses(op, arg) ==
    CASE op = "create" -> isValidIP(arg)
      [] op = "delete" -> isValidRecordId(arg)
      [] op = "list"   -> TRUE

ClientInit ==
    /\ lastRequest = 0
    /\ attempt = 0
    /\ cpos = "idle"
    /\ wakeAt = Null
    /\ operation = "none"
    /\ argument = NoArgument
    /\ outcome = "none"
    /\ calls = 0
    /\ inFlight = 0
    /\ starts = <<Null, Null>>
    /\ sent = 0
    /\ failed = 0
    /\ firstKind = "none"
    /\ allRetryable = TRUE
    /\ all429 = TRUE
    /\ failedAt = Null
    /\ waits = <<>>

Init == CycleInit /\ ClientInit /\ listing = servers

\* The request of this attempt is sent: this.lastRequest = Date.now().
sendAt(now) ==
    /\ lastRequest' = now
    /\ inFlight' = inFlight + 1
    /\ starts' = <<starts[2], now>>
    /\ waits' = IF failedAt = Null THEN waits ELSE Append(waits, now - failedAt)
    /\ sent' = sent + 1
    /\ cpos' = "request"

\* getAllRecords, createRecord or deleteRecord calls makeRequest. The caller
\* awaits every call, so a call begins only when the one before has ended.
CallBegin ==
    /\ cpos = "idle"
    /\ calls < MaxCalls
    /\ \E op \in {"list", "create", "delete"}, gap \in Gaps :
         /\ \E arg \in ArgumentsOf(op) :
              /\ argumentPasses(op, arg)
              /\ argument' = arg
         /\ operation' = op
         /\ clock' = clock + gap
    /\ attempt' = 0
    /\ outcome' = "none"
    /\ calls' = calls + 1
    /\ sent' = 0
    /\ failed' = 0
    /\ firstKind' = "none"
    /\ allRetryable' = TRUE
    /\ all429' = TRUE
    /\ failedAt' = Null
    /\ waits' = <<>>
    /\ cpos' = "top"
    /\ UNCHANGED <<lastRequest, wakeAt, inFlight, starts>>
    /\ UNCHANGED <<intervalSeconds, listing, stable, serverHealth, records, pc, results,
                   currentRecords, actions, next, fetched, issued, planTime,
                   unhealthySince, sinceLast, lastResults, sameProbes,
                   armed, active>>

\* createRecord or deleteRecord is called with an argument that fails its
\* check: it throws before makeRequest is called.
CallRejected ==
    /\ cpos = "idle"
    /\ calls < MaxCalls
    /\ \E op \in {"create", "delete"}, gap \in Gaps :
         /\ \E arg \in ArgumentsOf(op) :
              /\ ~argumentPasses(op, arg)
              /\ argument' = arg
         /\ operation' = op
         /\ clock' = clock + gap
    /\ outcome' = "invalid"
    /\ calls' = calls + 1
    /\ sent' = 0
    /\ failed' = 0
    /\ firstKind' = "none"
    /\ allRetryable' = TRUE
    /\ all429' = TRUE
    /\ failedAt' = Null
    /\ waits' = <<>>
    /\ UNCHANGED <<lastRequest, attempt, cpos, wakeAt, inFlight, starts>>
    /\ UNCHANGED <<intervalSeconds, listing, stable, serverHealth, records, pc, results,
                   currentRecords, actions, next, fetched, issued, planTime,
                   unhealthySince, sinceLast, lastResults, sameProbes,
                   armed, active>>

\* Top of the loop body, too early since the last request: sleep.
RateWait ==
    /\ cpos = "top"
    /\ rateLimitWait(clock, lastRequest) > 0
    /\ wakeAt' = clock + rateLimitWait(clock, lastRequest)
    /\ cpos' = "rateWait"
    /\ UNCHANGED <<lastRequest, attempt, operation, argument, outcome, calls, inFlight,
                   starts, sent, failed, firstKind, allRetryable, all429, failedAt, waits>>
    /\ UNCHANGED cycleVars

\* The rate-limit timer fires and the request is sent.
RateWake ==
    /\ cpos = "rateWait"
    /\ clock' = wakeAt
    /\ wakeAt' = Null
    /\ sendAt(wakeAt)
    /\ UNCHANGED <<attempt, operation, argument, outcome, calls, failed, firstKind,
                   allRetryable, all429, failedAt>>
    /\ UNCHANGED <<intervalSeconds, listing, stable, serverHealth, records, pc, results,
                   currentRecords, actions, next, fetched, issued, planTime,
                   unhealthySince, sinceLast, lastResults, sameProbes,
                   armed, active>>

\* Top of the loop body, no wait needed: the request is sent at once.
SendNow ==
    /\ cpos = "top"
    /\ rateLimitWait(clock, lastRequest) = 0
    /\ sendAt(clock)
    /\ UNCHANGED <<attempt, wakeAt, operation, argument, outcome, calls, failed,
                   firstKind, allRetryable, all429, failedAt>>
    /\ UNCHANGED cycleVars

\* requestFn() resolves: makeRequest returns the result.
RequestOk ==
    /\ cpos = "request"
    /\ \E d \in Durations : clock' = clock + d
    /\ inFlight' = inFlight - 1
    /\ outcome' = "ok"
    /\ cpos' = "idle"
    /\ UNCHANGED <<lastRequest, attempt, wakeAt, operation, argument, calls, starts,
                   sent, failed, firstKind, allRetryable, all429, failedAt, waits>>
    /\ UNCHANGED <<intervalSeconds, listing, stable, serverHealth, records, pc, results,
                   currentRecords, actions, next, fetched, issued, planTime,
                   unhealthySince, sinceLast, lastResults, sameProbes,
                   armed, active>>

\* requestFn() rejects: rethrow, or sleep retryDelays[attempt] and loop.
RequestFail ==
    /\ cpos = "request"
    /\ \E d \in Durations, error \in Failures :
         /\ clock' = clock + d
         /\ failed' = failed + 1
         /\ firstKind' = IF firstKind # "none" THEN firstKind
                         ELSE IF RetryableKind(error) THEN "retryable" ELSE "other"
         /\ allRetryable' = (allRetryable /\ RetryableKind(error))
         /\ all429' = (all429 /\ error.status = 429)
         /\ failedAt' = clock + d
         /\ IF isLastAttempt(attempt) \/ ~isRetryable(error)
            THEN /\ outcome' = "error"
                 /\ cpos' = "idle"
                 /\ wakeAt' = wakeAt
            ELSE /\ outcome' = outcome
                 /\ cpos' = "backoff"
                 /\ wakeAt' = clock + d + retryDelays[attempt + 1]
    /\ inFlight' = inFlight - 1
    /\ UNCHANGED <<lastRequest, attempt, operation, argument, calls, starts, sent,
                   waits>>
    /\ UNCHANGED <<intervalSeconds, listing, stable, serverHealth, records, pc, results,
                   currentRecords, actions, next, fetched, issued, planTime,
                   unhealthySince, sinceLast, lastResults, sameProbes,
                   armed, active>>

\* The backoff timer fires: attempt++ and the loop body runs again.
BackoffWake ==
    /\ cpos = "backoff"
    /\ clock' = wakeAt
    /\ wakeAt' = Null
    /\ attempt' = attempt + 1
    /\ cpos' = "top"
    /\ UNCHANGED <<lastRequest, operation, argument, outcome, calls, inFlight, starts,
                   sent, failed, firstKind, allRetryable, all429, failedAt, waits>>
    /\ UNCHANGED <<intervalSeconds, listing, stable, serverHealth, records, pc, results,
                   currentRecords, actions, next, fetched, issued, planTime,
                   unhealthySince, sinceLast, lastResults, sameProbes,
                   armed, active>>

ClientNext ==
    \/ CallBegin
    \/ CallRejected
    \/ RateWait
    \/ RateWake
    \/ SendNow
    \/ RequestOk
    \/ RequestFail
    \/ BackoffWake

\* The client alone: the loop is not started and no record is published.
ClientSpecInit ==
    /\ Init
    /\ intervalSeconds = Null
    /\ records = {}

ClientSpec == ClientSpecInit /\ [][ClientNext]_vars

Next ==
    \/ Tick
    \/ OutOfBand
    \/ StartCycle
    \/ ProbeDone
    \/ UpdateHealth
    \/ FetchOk
    \/ FetchFail
    \/ FetchThrows
    \/ ApplyOk
    \/ ApplyFail
    \/ EndCycle

Spec == Init /\ [][Next]_vars

\* The loop under the scheduling the runtime gives it: an armed timer fires,
\* a probe settles within its 3 s timeout, a provider call settles (each
\* request has a 10 s timeout and the retries are bounded), and code that is
\* not waiting runs on.
Fairness ==
    /\ WF_vars(StartCycle)
    /\ WF_vars(ProbeDone)
    /\ WF_vars(UpdateHealth)
    /\ WF_vars(FetchOk \/ FetchFail \/ FetchThrows)
    /\ WF_vars(ApplyOk \/ ApplyFail)
    /\ WF_vars(EndCycle)

\* The steps of the loop itself: nobody else touches the record set, and the
\* time the steps take is left out (whether the loop goes on depends on no
\* timestamp).
LoopNext ==
    \/ StartCycle
    \/ ProbeDone
    \/ UpdateHealth
    \/ FetchOk
    \/ FetchFail
    \/ FetchThrows
    \/ ApplyOk
    \/ ApplyFail
    \/ EndCycle

LiveSpec == Init /\ [][LoopNext]_vars /\ Fairness

\* ------------------------------------------------------ planner, any listing
\* The configurations of NumServers servers with distinct addresses; two
\* servers may bear the same name (the configuration check does not object).
Listings ==
    { l \in [1..NumServers -> [name : 1..NumServers, ip : ServerIPs]] :
        \A i, j \in 1..NumServers : l[i].ip = l[j].ip => i = j }

PlanInit == CycleInit /\ ClientInit /\ listing \in Listings

\* The first cycle up to and including the planning.
PlanNext ==
    \/ StartCycle
    \/ ProbeDone
    \/ UpdateHealth
    \/ FetchOk

PlanSpec == PlanInit /\ [][PlanNext]_vars

\* =============================================================== properties
\* --------------------------------------- one cycle and its provider calls
\* app.js calls the client: makeRequest starts with attempt 0. The address
\* comes from the checked configuration and the record id from the provider,
\* so the argument passes the client's check.
call(op) ==
    /\ cpos = "idle"
    /\ operation' = op
    /\ argument' = CHOOSE arg \in ArgumentsOf(op) : argumentPasses(op, arg)
    /\ attempt' = 0
    /\ outcome' = "none"
    /\ calls' = calls + 1
    /\ sent' = 0
    /\ failed' = 0
    /\ firstKind' = "none"
    /\ allRetryable' = TRUE
    /\ all429' = TRUE
    /\ failedAt' = Null
    /\ waits' = <<>>
    /\ cpos' = "top"
    /\ UNCHANGED <<lastRequest, wakeAt, inFlight, starts>>
    /\ UNCHANGED cycleVars

\* The call that was begun has come back to app.js with this outcome.
returned(o) == cpos = "idle" /\ outcome = o

\* Fault variant: a failed fetch of the ground truth is tried again.
getAllDNSRecords_Again ==
    /\ pc = "fetch"
    /\ calls = 0 \/ returned("error")
    /\ calls < 3
    /\ call("list")

\* manageDNSRecords awaits getAllDNSRecords(), once.
getAllDNSRecords ==
    /\ pc = "fetch"
    /\ calls = 0
    /\ call("list")

\* The execute loop awaits the provider call of the next action; the calls
\* made so far are the fetch and one per action before this one.
applyAction ==
    /\ pc = "apply"
    /\ next <= Len(actions)
    /\ calls = next
    /\ call(IF actions[next].type = "assign" THEN "create" ELSE "delete")

\* The first cycle of the process, each provider call of which runs through
\* makeRequest. The time a request takes is left out (the waits of the
\* client still pass), and a request fails with HTTP 429 or with a failure
\* that is not retried: whether the cycle ends depends on neither.
TermNext ==
    \/ StartCycle /\ sinceLast = "none"
    \/ ProbeDone
    \/ UpdateHealth
    \/ getAllDNSRecords
    \/ applyAction
    \/ RateWait
    \/ RateWake
    \/ SendNow
    \/ RequestOk /\ clock' = clock
    \/ RequestFail /\ clock' = clock /\ all429' = allRetryable'
    \/ BackoffWake
    \/ FetchOk /\ calls = 1 /\ returned("ok")
    \/ FetchThrows /\ calls = 1 /\ returned("ok")
    \/ FetchFail /\ calls = 1 /\ returned("error")
    \/ ApplyOk /\ calls = next + 1 /\ returned("ok")
    \/ ApplyFail /\ calls = next + 1 /\ returned("error")
    \/ EndCycle

\* Every probe and every request completes or times out and every timer
\* fires: the process never stalls while it has a step to take.
TermFairness == WF_vars(TermNext)

TermInit == Init /\ intervalSeconds # Null

TermSpec == TermInit /\ [][TermNext]_vars /\ TermFairness

\* ------------------------------------------------- a settled environment
\* The environment settles between two cycles, after a cycle in which at least
\* one server answered healthy.
Settle ==
    /\ pc = "idle"
    /\ ~stable
    /\ \E ip \in ServerIPs :
         lastResults[ip] # NoResult /\ lastResults[ip].isHealthy
    /\ stable' = TRUE
    /\ UNCHANGED <<clientVars, intervalSeconds, listing, serverHealth, records,
                   clock, pc, results, currentRecords, actions, next, fetched,
                   issued, planTime, unhealthySince, sinceLast, lastResults,
                   sameProbes, armed, active>>

\* Every probe that has resolved answered as in the cycle before.
sameAnswers(res) ==
    \A ip \in ServerIPs : res[ip] \in {NoResult, lastResults[ip]}

\* Before the environment settles anything may happen to the loop; the steps
\* take no time, so that every transition to unhealthy bears the start time.
Unsettled == ~stable /\ LoopNext

\* Once it has settled: time passes, the probes repeat their answers and the
\* fetch and every provider call succeed.
Settled ==
    /\ stable
    /\ \/ Tick
       \/ StartCycle
       \/ ProbeDone /\ sameAnswers(results')
       \/ UpdateHealth /\ sameAnswers(results')
       \/ FetchOk
       \/ ApplyOk
       \/ EndCycle

ConvergeNext == Unsettled \/ Settle \/ Settled

\* The loop keeps running (the timer fires, the promises resolve) and time
\* keeps passing: Tick is enabled again and again between cycles, which is
\* why its fairness is strong.
ConvergeFairness ==
    /\ WF_vars(StartCycle)
    /\ WF_vars(ProbeDone /\ sameAnswers(results'))
    /\ WF_vars(UpdateHealth /\ sameAnswers(results'))
    /\ WF_vars(FetchOk)
    /\ WF_vars(ApplyOk)
    /\ WF_vars(EndCycle)
    /\ SF_vars(stable /\ Tick)

ConvergeInit == Init /\ intervalSeconds # Null

ConvergeSpec == ConvergeInit /\ [][ConvergeNext]_vars /\ ConvergeFairness

\* ---------------------------------------------------------------- properties
publishedIPs == currentIPsOf(records)

groundTruthIPs == currentIPsOf(currentRecords)

healthyNonPrimaryExists ==
    \E ip \in ServerIPs : serverHealth[ip].isHealthy /\ ~serverHealth[ip].isPrimary

plansAssign(ip) ==
    \E i \in 1..Len(actions) : actions[i].type = "assign" /\ actions[i].server.ip = ip

plansUnassign(ip) ==
    \E i \in 1..Len(actions) : actions[i].type = "unassign" /\ actions[i].server.ip = ip

nameOfIP(ip) == (CHOOSE i \in 1..NumServers : ServerOf(i).ip = ip)

\* C1: when a cycle has fetched the ground truth, at least one server is
\* healthy after the state update and every create/delete call of the cycle
\* succeeded, at least one address is published at the end of the cycle.
C1_FloorWhileHealthy ==
    ( /\ pc = "summary"
      /\ fetched = "ok"
      /\ AllOk(issued)
      /\ \E ip \in ServerIPs : serverHealth[ip].isHealthy )
    => Cardinality(publishedIPs) >= 1

\* A cycle that started from the empty record set with a healthy server has
\* ended with every call successful.
C1_Witness ==
    /\ pc = "summary"
    /\ fetched = "ok"
    /\ AllOk(issued)
    /\ currentRecords = {}
    /\ issued # <<>>
    /\ \E ip \in ServerIPs : serverHealth[ip].isHealthy

\* C2: a cycle that found at least one address published still has at least
\* one published after its unassign actions were applied.  Only cycles whose
\* provider calls all succeeded are considered, so that an empty set is the
\* planner's doing and not the result of a failed assign.
C2_NeverRemovesLast ==
    (fetched = "ok" /\ AllOk(issued) /\ Cardinality(groundTruthIPs) >= 1)
    => Cardinality(publishedIPs) >= 1

\* C3: no assign action is planned for a primary-flagged server while a
\* healthy non-primary server exists.
C3_NoPrimaryAssignWithAlternative ==
    fetched = "ok" =>
        \A ip \in ServerIPs :
            (plansAssign(ip) /\ serverHealth[ip].isPrimary)
            => ~healthyNonPrimaryExists

\* The planner has run over a healthy, unassigned, primary-flagged server
\* while a healthy non-primary server exists.
C3_Witness ==
    /\ fetched = "ok"
    /\ healthyNonPrimaryExists
    /\ \E ip \in ServerIPs :
         /\ serverHealth[ip].isHealthy
         /\ serverHealth[ip].isPrimary
         /\ ip \notin groundTruthIPs

\* C4 as stated: a cycle whose probe results equal the previous cycle's and
\* that finds the record set as the previous cycle left it plans no action.
C4_Idempotent_AsStated ==
    (fetched = "ok" /\ sameProbes /\ sinceLast \in {"clean", "failed"})
    => actions = <<>>

\* The same restricted to cycles that follow a clean cycle: it fails as well
\* (the floor or the grace period that held an unhealthy server's address
\* back in the previous cycle no longer does).
C4_Idempotent_AfterCleanCycle ==
    (fetched = "ok" /\ sameProbes /\ sinceLast = "clean") => actions = <<>>

\* C4, amended: the same, provided the previous cycle fetched the ground
\* truth, every call of it succeeded and it left no unhealthy server's
\* address published.
C4_Idempotent ==
    ( /\ fetched = "ok"
      /\ sameProbes
      /\ sinceLast = "clean"
      /\ \A ip \in ServerIPs \cap groundTruthIPs : serverHealth[ip].isHealthy )
    => actions = <<>>

\* A second cycle with unchanged probes has planned, after a clean cycle that
\* had work to do left a healthy server published.
C4_Witness ==
    /\ fetched = "ok"
    /\ sameProbes
    /\ sinceLast = "clean"
    /\ \A ip \in ServerIPs \cap groundTruthIPs : serverHealth[ip].isHealthy
    /\ \E ip \in ServerIPs \cap groundTruthIPs : serverHealth[ip].isPrimary
    /\ \E ip \in ServerIPs : ~serverHealth[ip].isHealthy

\* C5: for an assigned server that went from healthy to unhealthy at time T
\* and is still unhealthy, with at least 2 addresses published when the
\* cycle starts, an unassign action is planned at time t iff t - T >= 30 s.
C5_GraceTiming ==
    fetched = "ok" =>
        \A ip \in ServerIPs :
            ( /\ ip \in groundTruthIPs
              /\ ~serverHealth[ip].isHealthy
              /\ unhealthySince[ip] # Null
              /\ Cardinality(groundTruthIPs) >= 2 )
            => (plansUnassign(ip) <=> planTime - unhealthySince[ip] >= 30 * 1000)

\* An unassign is planned exactly 30 s after the server went unhealthy.
C5_Witness ==
    /\ fetched = "ok"
    /\ \E ip \in ServerIPs :
         /\ ip \in groundTruthIPs
         /\ ~serverHealth[ip].isHealthy
         /\ unhealthySince[ip] # Null
         /\ Cardinality(groundTruthIPs) >= 2
         /\ planTime - unhealthySince[ip] = 30 * 1000
         /\ plansUnassign(ip)

\* C6: within a cycle no create call is issued after a delete call.
C6_AssignsFirst ==
    \A i, j \in 1..Len(issued) :
        (i < j /\ issued[i].type = "unassign") => issued[j].type # "assign"

\* A cycle has issued a create and then a delete, for a server that the
\* planner evaluated before the one it created a record for.
C6_Witness ==
    \E i, j \in 1..Len(issued) :
        /\ i < j
        /\ issued[i].type = "assign"
        /\ issued[j].type = "unassign"
        /\ nameOfIP(issued[j].ip) < nameOfIP(issued[i].ip)

\* C7: a call whose attempts 1 to 4 fail with HTTP 429 and whose attempt 5
\* succeeds returns success, and the waits from each failure to the start of
\* the next attempt are 1 s, 2 s, 4 s, 8 s.
C7_BackoffDelays ==
    (cpos = "idle" /\ sent = 5 /\ failed = 4 /\ all429)
    => (outcome = "ok" /\ waits = <<1000, 2000, 4000, 8000>>)

\* A call has ended after four 429 failures and a fifth attempt.
C7_Witness == cpos = "idle" /\ sent = 5 /\ failed = 4 /\ all429 /\ outcome = "ok"

\* C8: a call whose first attempt fails with a failure that is none of the
\* retryable kinds ends in an error after that one attempt, with no backoff
\* wait and no further attempt.
C8_NoRetryOfOtherFailures ==
    firstKind = "other"
    => ( /\ sent = 1
         /\ failed = 1
         /\ cpos = "idle"
         /\ outcome = "error"
         /\ waits = <<>>
         /\ wakeAt = Null
         /\ clock = failedAt )

\* A call has failed on its first attempt with a failure of no retryable kind.
C8_Witness == firstKind = "other" /\ outcome = "error" /\ calls >= 1

\* C9: no call makes more than 5 attempts; a call that ends in an error with
\* every failure of a retryable kind has made exactly 5; after a failed 5th
\* attempt the call ends in an error.
C9_FiveAttempts ==
    /\ sent <= 5
    /\ (cpos = "idle" /\ outcome = "error" /\ allRetryable) => (sent = 5 /\ failed = 5)
    /\ failed = 5 => (cpos = "idle" /\ outcome = "error")

\* A call has failed five times, every time with a retryable failure.
C9_Witness == failed = 5 /\ allRetryable /\ outcome = "error"

\* C10: a request starts at least 1000 ms after the request before it
\* started, whichever calls they belong to, and at most one is in flight.
C10_RateLimit ==
    /\ inFlight <= 1
    /\ starts[1] # Null => starts[2] - starts[1] >= 1000

\* The first request of a second call was held back to exactly 1000 ms after
\* the request before it.
C10_Witness ==
    /\ calls = 2
    /\ sent = 1
    /\ cpos = "request"
    /\ starts[1] # Null
    /\ starts[2] - starts[1] = 1000

RECURSIVE Decimal(_)
\* The decimal numeral of a natural number, without leading zeros.
Decimal(n) ==
    LET digit(d) == CHOOSE c \in Digits : DigitValue(c) = d IN
    IF n < 10 THEN <<digit(n)>> ELSE Decimal(n \div 10) \o <<digit(n % 10)>>

\* The numerals of 0..255.
Octets == {Decimal(n) : n \in 0..255}

\* Four dot-separated decimal octets, each in 0..255, without leading zeros.
FourOctets(str) ==
    \E i, j, k \in 1..Len(str) :
        /\ i < j /\ j < k
        /\ str[i] = "." /\ str[j] = "." /\ str[k] = "."
        /\ SubSeq(str, 1, i - 1) \in Octets
        /\ SubSeq(str, i + 1, j - 1) \in Octets
        /\ SubSeq(str, j + 1, k - 1) \in Octets
        /\ SubSeq(str, k + 1, Len(str)) \in Octets

\* 32 lowercase hexadecimal characters.
ThirtyTwoLowerHex(str) ==
    /\ DOMAIN str = 1..32
    /\ {str[i] : i \in DOMAIN str} \subseteq
           {"0", "1", "2", "3", "4", "5", "6", "7", "8", "9", "a", "b", "c", "d", "e", "f"}

malformedArgument ==
    \/ operation = "create" /\ ~FourOctets(argument)
    \/ operation = "delete" /\ ~ThirtyTwoLowerHex(argument)

\* C11: createRecord with an address that is not four dot-separated decimal
\* octets in 0..255 without leading zeros, and deleteRecord with an identifier
\* that is not 32 lowercase hex characters, throw without sending any request,
\* without any wait and without any retry.
C11_MalformedFailsLocally ==
    malformedArgument
    => ( /\ outcome = "invalid"
         /\ cpos = "idle"
         /\ sent = 0
         /\ failed = 0
         /\ inFlight = 0
         /\ waits = <<>>
         /\ wakeAt = Null )

\* After an earlier call, createRecord was called with an address that has a
\* leading zero in an octet and threw.
C11_Witness ==
    /\ calls = 2
    /\ operation = "create"
    /\ argument = <<"0", "1", ".", "2", ".", "3", ".", "4">>
    /\ outcome = "invalid"
    /\ lastRequest > 0

\* C12: a cycle whose ground-truth fetch failed plans no action and issues no
\* create or delete call; it goes on to its summary, and its end arms the
\* next cycle when an interval is configured (without one, doCheckups just
\* returns).
C12_FetchFailureSkipsCycle ==
    /\ [](fetched = "failed" =>
            (actions = <<>> /\ issued = <<>> /\ pc = "summary"))
    /\ [][fetched = "failed" =>
            /\ records' = records
            /\ pc' = IF intervalSeconds # Null THEN "idle" ELSE "exit"]_vars

\* The fetch has failed in a cycle that had work to do: a healthy server's
\* address is not published; an interval is configured.
C12_Witness ==
    /\ fetched = "failed"
    /\ pc = "summary"
    /\ intervalSeconds # Null
    /\ \E ip \in ServerIPs : serverHealth[ip].isHealthy /\ ip \notin publishedIPs

\* C13: the calls issued so far in a cycle are the planned actions up to the
\* current one, one call per action and in order, whatever the outcome of the
\* earlier calls; when the cycle reaches its summary every planned action has
\* had its one call.
C13_EveryActionAttemptedOnce ==
    fetched = "ok" =>
        /\ Len(issued) = next - 1
        /\ Len(issued) <= Len(actions)
        /\ \A i \in 1..Len(issued) :
              /\ issued[i].type = actions[i].type
              /\ issued[i].ip = actions[i].server.ip
        /\ \A i, j \in 1..Len(actions) :
              (actions[i].type = actions[j].type
               /\ actions[i].server.ip = actions[j].server.ip) => i = j
        /\ pc = "summary" => Len(issued) = Len(actions)

\* A batch of two actions has been executed to its end although the call of
\* its first action failed.
C13_Witness ==
    /\ pc = "summary"
    /\ Len(actions) = 2
    /\ Len(issued) = 2
    /\ ~issued[1].ok
    /\ issued[2].ok

\* C14: at most one invocation of doCheckups is in progress, and while one is
\* (from its probes to the end of its last provider call) no other is due;
\* the probes of a cycle are out only when no fetch, plan or call of an
\* earlier cycle is left.
C14_CyclesNeverOverlap ==
    /\ active <= 1
    /\ armed <= 1
    /\ active = 1 => armed = 0
    /\ active = 1 <=> pc \in {"probing", "fetch", "apply", "summary"}
    /\ pc = "probing" => (fetched = "none" /\ actions = <<>> /\ issued = <<>>)

\* The probes of a cycle are out after an earlier cycle that issued calls, one
\* of which failed.
C14_Witness ==
    /\ pc = "probing"
    /\ active = 1
    /\ sinceLast = "failed"
    /\ \E ip \in ServerIPs : results[ip] # NoResult

\* C15: with an interval configured, cycles reach their end again and again
\* and the probes of a cycle are out again and again, whatever failed in the
\* cycles before: every cycle is followed by another one.
C15_LoopNeverStops ==
    intervalSeconds # Null =>
        /\ []<>(pc = "summary")
        /\ []<>(pc = "probing")

\* A cycle in which the body threw has reached its end, after a cycle in
\* which a fetch or an action failed and with a probe failure in it.
C15_Witness ==
    /\ intervalSeconds # Null
    /\ pc = "summary"
    /\ fetched = "threw"
    /\ sinceLast = "failed"
    /\ \E ip \in ServerIPs : ~results[ip].isHealthy

cleanCycleEnd == pc = "summary" /\ fetched = "ok" /\ AllOk(issued)

C17_AssignEligibility ==
    fetched = "ok" =>
        \A ip \in ServerIPs :
            plansAssign(ip) <=>
                ( /\ serverHealth[ip].isHealthy
                  /\ ip \notin groundTruthIPs
                  /\ (~serverHealth[ip].isPrimary \/ ~healthyNonPrimaryExists) )

\* The planner has run with every server healthy, primary-flagged and
\* unpublished, and has planned an assign for each of them.
C17_Witness ==
    /\ fetched = "ok"
    /\ \A ip \in ServerIPs :
         /\ serverHealth[ip].isHealthy
         /\ serverHealth[ip].isPrimary
         /\ ip \notin groundTruthIPs
         /\ plansAssign(ip)

\* C18: when the planner has run, an unassign action is planned for a
\* published, healthy, primary-flagged server iff a healthy non-primary server
\* exists, whatever the number of published addresses and however recently
\* the server became healthy.
C18_PrimaryDemotion ==
    fetched = "ok" =>
        \A ip \in ServerIPs :
            ( /\ ip \in groundTruthIPs
              /\ serverHealth[ip].isHealthy
              /\ serverHealth[ip].isPrimary )
            => (plansUnassign(ip) <=> healthyNonPrimaryExists)

\* The unassign of a healthy primary-flagged server is planned although its
\* address is the only one published and it became healthy in this very
\* cycle.
C18_Witness ==
    /\ fetched = "ok"
    /\ healthyNonPrimaryExists
    /\ \E ip \in ServerIPs :
         /\ groundTruthIPs = {ip}
         /\ serverHealth[ip].isHealthy
         /\ serverHealth[ip].isPrimary
         /\ serverHealth[ip].lastHealthyTime = planTime
         /\ plansUnassign(ip)

\* C19: from the fetch of a cycle that found at least one address published
\* to the end of that cycle, while at least one server is healthy, at least one
\* address is published, also after a failed assign.
C19_NeverEmptyMidBatch ==
    ( /\ fetched = "ok"
      /\ groundTruthIPs # {}
      /\ \E ip \in ServerIPs : serverHealth[ip].isHealthy )
    => publishedIPs # {}

\* C20: in the state update of a cycle, for every server: lastHealthyTime
\* changes only if the stored state was unhealthy and the probe says healthy,
\* lastUnhealthyTime only if the stored state was healthy and the probe says
\* unhealthy; when the probe's health equals the stored one, isHealthy and both
\* timestamps stay as they are; isAssigned stays as it is, and nothing but the
\* server's own probe result decides (isPrimary takes the probe's value).
C20_EdgeTriggered ==
    [][ (pc = "probing" /\ pc' = "fetch") =>
          \A ip \in ServerIPs :
            LET old == serverHealth[ip]
                new == serverHealth'[ip]
                probe == results'[ip]
            IN  /\ new.lastHealthyTime # old.lastHealthyTime
                      => (~old.isHealthy /\ probe.isHealthy)
                /\ new.lastUnhealthyTime # old.lastUnhealthyTime
                      => (old.isHealthy /\ ~probe.isHealthy)
                /\ (~old.isHealthy /\ probe.isHealthy) => new.lastHealthyTime = clock
                /\ (old.isHealthy /\ ~probe.isHealthy) => new.lastUnhealthyTime = clock
                /\ probe.isHealthy = old.isHealthy
                      => /\ new.isHealthy = old.isHealthy
                         /\ new.lastHealthyTime = old.lastHealthyTime
                         /\ new.lastUnhealthyTime = old.lastUnhealthyTime
                /\ new.isHealthy = probe.isHealthy
                /\ new.isPrimary = probe.isPrimary
                /\ new.isAssigned = old.isAssigned
      ]_vars

\* A state update has left one server healthy with the timestamp of an
\* earlier cycle while another server went from healthy to unhealthy in it.
C20_Witness ==
    /\ pc = "fetch"
    /\ fetched = "none"
    /\ \E ip \in ServerIPs :
         /\ serverHealth[ip].isHealthy
         /\ serverHealth[ip].lastHealthyTime # Null
         /\ serverHealth[ip].lastHealthyTime < clock
         /\ serverHealth[ip].isAssigned
    /\ \E ip \in ServerIPs :
         /\ ~serverHealth[ip].isHealthy
         /\ serverHealth[ip].lastUnhealthyTime = clock
         /\ serverHealth[ip].lastHealthyTime # Null

\* C21: from the state update of a cycle to its end, and so whenever the
\* planner runs, the stored isPrimary of every server is the isPrimary of the
\* server's probe of this cycle.
C21_PrimaryFollowsProbe ==
    pc \in {"fetch", "apply", "summary"} =>
        \A ip \in ServerIPs : serverHealth[ip].isPrimary = results[ip].isPrimary

\* The planner has run in a cycle that follows a clean one with no change
\* from outside: both servers have been healthy since an earlier cycle and
\* both are published, one is primary-flagged and the other is not. The clean
\* cycle would have unpublished a primary-flagged server next to a healthy
\* non-primary one, so a flag has changed since then while no health has.
C21_Witness ==
    /\ fetched = "ok"
    /\ sinceLast = "clean"
    /\ ServerIPs \subseteq groundTruthIPs
    /\ \A ip \in ServerIPs :
         /\ serverHealth[ip].isHealthy
         /\ serverHealth[ip].lastHealthyTime < planTime
    /\ \E ip \in ServerIPs : serverHealth[ip].isPrimary
    /\ \E ip \in ServerIPs : ~serverHealth[ip].isPrimary

\* C22: every probe result that says unhealthy also says not primary.
C22_UnhealthyIsNotPrimary ==
    \A ip \in ServerIPs :
        (results[ip] # NoResult /\ ~results[ip].isHealthy) => ~results[ip].isPrimary

\* C23: when the actions of a cycle have been planned and none is executed
\* yet, the ground truth is the provider's record set and isAssigned of every
\* server says whether the server's address is the content of one of its
\* records.
C23_AssignedIsGroundTruth ==
    (fetched = "ok" /\ next = 1) =>
        /\ currentRecords = records
        /\ \A ip \in ServerIPs :
             serverHealth[ip].isAssigned <=> (\E r \in currentRecords : r.content = ip)

\* The planner has run after the record set was changed from outside since
\* the previous cycle: a server's address is published and another's is not.
C23_Witness ==
    /\ fetched = "ok"
    /\ next = 1
    /\ sinceLast = "changed"
    /\ \E ip \in ServerIPs : ip \in groundTruthIPs /\ serverHealth[ip].isAssigned
    /\ \E ip \in ServerIPs : ip \notin groundTruthIPs /\ ~serverHealth[ip].isAssigned

\* The listings of the same servers in another order.
reorderings(l) ==
    {l2 \in Listings : {l2[i] : i \in 1..NumServers} = {l[i] : i \in 1..NumServers}}

distinctNames(l) == \A i, j \in 1..NumServers : l[i].name = l[j].name => i = j

ascendingNames(acts) ==
    \A i, j \in 1..Len(acts) : i < j => acts[i].server.name <= acts[j].server.name

\* C24 as stated: the planner, run on the same health state, ground truth and
\* clock with the servers listed in any other order, produces the action list
\* it has produced.
C24_Deterministic_AsStated ==
    fetched = "ok" =>
        \A l2 \in reorderings(listing) :
            planActions(serverHealth, l2, currentRecords, planTime) = actions

\* C24, amended: the same for servers whose names are pairwise distinct; and
\* in any case the assigns and the unassigns are each in ascending name order.
C24_Deterministic ==
    fetched = "ok" =>
        /\ distinctNames(listing) =>
             \A l2 \in reorderings(listing) :
                 planActions(serverHealth, l2, currentRecords, planTime) = actions
        /\ planActions(serverHealth, listing, currentRecords, planTime) = actions
        /\ ascendingNames(SelectSeq(actions, IsAssign))
        /\ ascendingNames(SelectSeq(actions, IsUnassign))

\* The planner has planned two assigns for servers with distinct names that
\* the configuration lists in descending name order.
C24_Witness ==
    /\ fetched = "ok"
    /\ distinctNames(listing)
    /\ listing[1].name > listing[2].name
    /\ Len(actions) = 2
    /\ \A i \in 1..Len(actions) : actions[i].type = "assign"

\* C25: while a probe of the cycle is pending no health record changes, no
\* ground truth is fetched and nothing is planned; once the cycle is past its
\* probes no probe is pending and the stored health of every server is the
\* one its probe of this cycle reported.
C25_FanIn ==
    /\ [](Pending(results) # {} =>
            (pc \in {"idle", "probing", "exit"} /\ fetched = "none" /\ actions = <<>>))
    /\ [](pc \in {"fetch", "apply", "summary"} =>
            \A ip \in ServerIPs :
                /\ results[ip] # NoResult
                /\ serverHealth[ip].isHealthy = results[ip].isHealthy)
    /\ [][Pending(results') # {} => serverHealth' = serverHealth]_vars

\* The probe of the server evaluated last has completed first and reports a
\* health that differs from the stored one, while another probe is pending.
C25_Witness ==
    /\ pc = "probing"
    /\ \E ip, other \in ServerIPs :
         /\ nameOfIP(other) < nameOfIP(ip)
         /\ results[other] = NoResult
         /\ results[ip] # NoResult
         /\ results[ip].isHealthy
         /\ ~serverHealth[ip].isHealthy

\* C26: an unassign is planned for a server that has never been seen healthy
\* (lastUnhealthyTime still null) only when the process, and so the observed
\* unhealthiness, is at least 30 s old.
C26_GraceForNeverHealthy ==
    fetched = "ok" =>
        \A ip \in ServerIPs :
            ( /\ ~serverHealth[ip].isHealthy
              /\ serverHealth[ip].lastUnhealthyTime = Null
              /\ plansUnassign(ip) )
            => planTime - StartClock >= GRACE_PERIOD_MS

\* C27: the record named by every planned unassign is a record of the ground
\* truth whose content is the address of the action's (configured) server,
\* and a record of another address that the cycle found is still there.
C27_ForeignRecordsKept ==
    fetched = "ok" =>
        /\ \A i \in 1..Len(actions) :
             actions[i].type = "unassign" =>
                \E r \in currentRecords :
                    /\ r.id = actions[i].recordId
                    /\ r.content = actions[i].server.ip
                    /\ r.content \in ServerIPs
        /\ \A r \in currentRecords : r.content \notin ServerIPs => r \in records

\* A cycle that found another address published next to the servers' has
\* deleted a record, and the other address is still published.
C27_Witness ==
    /\ pc = "summary"
    /\ fetched = "ok"
    /\ ForeignIP \in groundTruthIPs
    /\ ForeignIP \in publishedIPs
    /\ \E i \in 1..Len(issued) : issued[i].type = "unassign" /\ issued[i].ok

\* C28: the action list of a cycle holds at most one action per server.
C28_OneActionPerServer ==
    \A i, j \in 1..Len(actions) :
        actions[i].server.ip = actions[j].server.ip => i = j

\* A plan of two actions: the assign of one server and the unassign of the
\* other, which is healthy and primary-flagged.
C28_Witness ==
    /\ fetched = "ok"
    /\ Len(actions) = 2
    /\ actions[1].type = "assign"
    /\ actions[2].type = "unassign"
    /\ serverHealth[actions[2].server.ip].isHealthy
    /\ serverHealth[actions[2].server.ip].isPrimary

\* C29: no unassign is planned for a server that is healthy and not
\* primary-flagged.
C29_HealthyNonPrimaryKept ==
    fetched = "ok" =>
        \A ip \in ServerIPs :
            (serverHealth[ip].isHealthy /\ ~serverHealth[ip].isPrimary)
            => ~plansUnassign(ip)

\* The planner has run with a healthy non-primary server published among
\* three addresses and has planned the unassign of the other server.
C29_Witness ==
    /\ fetched = "ok"
    /\ Cardinality(groundTruthIPs) = 3
    /\ \E ip \in ServerIPs :
         /\ serverHealth[ip].isHealthy
         /\ ~serverHealth[ip].isPrimary
         /\ ~plansUnassign(ip)
    /\ \E ip \in ServerIPs : plansUnassign(ip)


\* The configured servers eligible for rotation: healthy and non-primary, or
\* healthy and primary when no server is healthy and non-primary.
eligibleIPs ==
    {ip \in ServerIPs :
        /\ serverHealth[ip].isHealthy
        /\ (~serverHealth[ip].isPrimary \/ ~healthyNonPrimaryExists)}

converged ==
    /\ publishedIPs \cap ServerIPs = eligibleIPs
    /\ fetched = "ok" => actions = <<>>

\* C30: once the probes repeat their answers with a server healthy, every
\* provider call succeeds and nobody else changes the records, the loop
\* reaches after finitely many cycles a point from which the published
\* configured servers are exactly the eligible ones and every plan is empty.
C30_Convergence == <>[](stable => converged)

\* The environment has settled, the grace period of a server that turned
\* unhealthy has run out, the server is no longer published and the cycle
\* planned nothing.
C30_Witness ==
    /\ stable
    /\ converged
    /\ fetched = "ok"
    /\ pc = "summary"
    /\ \E ip \in ServerIPs :
         /\ ~serverHealth[ip].isHealthy
         /\ serverHealth[ip].lastUnhealthyTime # Null
         /\ clock - serverHealth[ip].lastUnhealthyTime >= GRACE_PERIOD_MS
         /\ ip \notin publishedIPs

\* The provider calls a cycle may have begun at its position: none before
\* the fetch, the fetch alone while it runs, and then one call per action
\* reached by the execute loop.
callsAllowed ==
    CASE pc \in {"idle", "probing"} /\ sinceLast = "none" -> 0
      [] pc = "fetch" -> 1
      [] pc = "apply" -> next + 1
      [] pc = "summary" -> 1 + Len(issued)
      [] OTHER -> 1 + NumServers

cycleBounded ==
    /\ calls <= callsAllowed
    /\ sent <= maxRetries + 1
    /\ attempt <= maxRetries
    /\ Len(actions) <= NumServers
    /\ \A i, j \in 1..Len(actions) :
         actions[i].server.ip = actions[j].server.ip => i = j

cycleEnded == sinceLast # "none" /\ pc \in {"idle", "exit"}

\* C31: a cycle makes at most one fetch and at most one provider call per
\* action, with at most one action per server and at most 5 attempts per
\* call, and it reaches its end.
C31_CycleTerminates == [](cycleBounded) /\ <>(cycleEnded)

\* The cycle has ended after a fetch and two actions, the last of which gave
\* up after its fifth attempt.
C31_Witness ==
    /\ cycleEnded
    /\ calls = 1 + NumServers
    /\ sent = maxRetries + 1
    /\ failed = maxRetries + 1
    /\ outcome = "error"
    /\ operation # "list"

====
